---- MODULE Spec2Model ----
(***************************************************************************)
(* Model of the Titan combinatorics solver (src/titan_v3.py): the          *)
(* TitanSolver class (split, vault construction, sieve with sequential and *)
(* parallel search) and the test-instance generator.                       *)
(***************************************************************************)
EXTENDS Integers, Sequences, FiniteSets, TLC

(***************************************************************************)
(* Bounds of the model.                                                    *)
(***************************************************************************)
MaxLen == 5
MaxNeg == 1
MaxVal == 2
MaxTarget == 3
MaxWorkers == 2
MaxSize == 4
MaxGenVal == 3
MaxChecked == 4

Vals == (0 - MaxNeg)..MaxVal
Targets == (-MaxTarget)..MaxTarget

(***************************************************************************)
(* Optional values: Python's None and a present value.                     *)
(***************************************************************************)
None == <<>>
Some(x) == <<x>>
Val(o) == o[1]

(***************************************************************************)
(* Plain helpers on sequences.                                             *)
(***************************************************************************)
RECURSIVE SumSeq(_)
SumSeq(s) == IF s = <<>> THEN 0 ELSE Head(s) + SumSeq(Tail(s))

Range(s) == {s[i] : i \in DOMAIN s}

Count(s, v) == Cardinality({i \in DOMAIN s : s[i] = v})

IsSubBag(a, b) == \A v \in Range(a) : Count(a, v) <= Count(b, v)

SeqsUpTo(S, n) == UNION {[1..k -> S] : k \in 0..n}

(***************************************************************************)
(* sorted(numbers) of the constructor: insertion into an ascending list.   *)
(***************************************************************************)
RECURSIVE InsertSorted(_, _)
InsertSorted(x, s) ==
    IF s = <<>> THEN <<x>>
    ELSE IF x < Head(s) THEN <<x>> \o s
    ELSE <<Head(s)>> \o InsertSorted(x, Tail(s))

RECURSIVE sorted(_)
sorted(s) == IF s = <<>> THEN <<>> ELSE InsertSorted(Head(s), sorted(Tail(s)))

(***************************************************************************)
(* _split_tranches: mid = len // 2, left = numbers[:mid],                  *)
(* right = numbers[mid:].                                                  *)
(***************************************************************************)
split_left(nums) == SubSeq(nums, 1, Len(nums) \div 2)

\* off by one: right = numbers[mid - 1:]
split_right_overlap(nums) ==
    IF Len(nums) \div 2 = 0 THEN nums ELSE SubSeq(nums, Len(nums) \div 2, Len(nums))

split_right(nums) == SubSeq(nums, (Len(nums) \div 2) + 1, Len(nums))

(***************************************************************************)
(* itertools.combinations(tranche, r): the r-element index tuples of       *)
(* 1..n in lexicographic order.                                            *)
(***************************************************************************)
RECURSIVE PrependAll(_, _)
PrependAll(i, cs) ==
    IF cs = <<>> THEN <<>> ELSE <<(<<i>> \o Head(cs))>> \o PrependAll(i, Tail(cs))

RECURSIVE CombosFrom(_, _, _)
CombosFrom(lo, n, r) ==
    IF r = 0 THEN << <<>> >>
    ELSE IF lo > n - r + 1 THEN <<>>
    ELSE PrependAll(lo, CombosFrom(lo + 1, n, r - 1)) \o CombosFrom(lo + 1, n, r)

combinations(n, r) == CombosFrom(1, n, r)

\* the subset of the tranche an index tuple selects
Pick(tranche, ix) == [k \in 1..Len(ix) |-> tranche[ix[k]]]

(***************************************************************************)
(* A vault is a Python dict: the sequence of its items in insertion order. *)
(***************************************************************************)
Keys(vault) == {vault[i].sum : i \in DOMAIN vault}

\* truthiness of vault.get(k): the empty witness of key 0 counts as absent
HasKeyTruthy(vault, k) == k \in Keys(vault) \ {0}

HasKey(vault, k) == k \in Keys(vault)

Lookup(vault, k) == vault[CHOOSE i \in DOMAIN vault : vault[i].sum = k].subset

\* last subset wins: vault[s] = subset without the membership test
VaultStoreLast(vault, subset) ==
    IF HasKey(vault, SumSeq(subset))
    THEN [i \in DOMAIN vault |->
            IF vault[i].sum = SumSeq(subset)
            THEN [sum |-> SumSeq(subset), subset |-> subset] ELSE vault[i]]
    ELSE Append(vault, [sum |-> SumSeq(subset), subset |-> subset])

\* if s not in vault: vault[s] = subset
VaultStore(vault, subset) ==
    IF HasKey(vault, SumSeq(subset)) THEN vault
    ELSE Append(vault, [sum |-> SumSeq(subset), subset |-> subset])

RECURSIVE VaultStoreAll(_, _, _)
VaultStoreAll(vault, tranche, combos) ==
    IF combos = <<>> THEN vault
    ELSE VaultStoreAll(VaultStore(vault, Pick(tranche, Head(combos))),
                       tranche, Tail(combos))

RECURSIVE VaultFromSize(_, _, _)
VaultFromSize(vault, tranche, r) ==
    IF r > Len(tranche) THEN vault
    ELSE VaultFromSize(VaultStoreAll(vault, tranche, combinations(Len(tranche), r)),
                       tranche, r + 1)

\* vault[0] = tuple()
EmptyVault == << [sum |-> 0, subset |-> <<>>] >>

\* the empty subset stored after the non-empty ones instead of first
build_vault_empty_last(tranche) ==
    Tail(VaultFromSize(EmptyVault, tranche, 1)) \o EmptyVault

build_vault(tranche) == VaultFromSize(EmptyVault, tranche, 1)

(***************************************************************************)
(* The search for the target.                                              *)
(***************************************************************************)
\* sign slip: needed = target + left_sum
NeededSum(tgt, left_sum) == tgt + left_sum

Needed(tgt, left_sum) == tgt - left_sum

\* the dict a hit returns
Hit(item, right_v, tgt) ==
    [subset |-> item.subset \o Lookup(right_v, Needed(tgt, item.sum)), sum |-> tgt]

\* the worker of _parallel_search: the first hit of its chunk, or None
RECURSIVE worker(_, _, _)
worker(chunk, right_v, tgt) ==
    IF chunk = <<>> THEN None
    ELSE IF HasKey(right_v, Needed(tgt, Head(chunk).sum))
         THEN Some(Hit(Head(chunk), right_v, tgt))
         ELSE worker(Tail(chunk), right_v, tgt)

chunk_size(left_items, workers) ==
    IF Len(left_items) \div workers >= 1 THEN Len(left_items) \div workers ELSE 1

NumChunks(left_items, workers) ==
    (Len(left_items) + chunk_size(left_items, workers) - 1)
        \div chunk_size(left_items, workers)

Min2(a, b) == IF a < b THEN a ELSE b

make_chunks(left_items, workers) ==
    [k \in 1..NumChunks(left_items, workers) |->
        SubSeq(left_items,
               (k - 1) * chunk_size(left_items, workers) + 1,
               Min2(k * chunk_size(left_items, workers), Len(left_items)))]

\* the last valid result instead of the first
RECURSIVE last_valid(_)
last_valid(res) ==
    IF res = <<>> THEN None
    ELSE IF last_valid(Tail(res)) # None THEN last_valid(Tail(res))
    ELSE Head(res)

\* for result in results: if result is not None: return result
RECURSIVE first_valid(_)
first_valid(res) ==
    IF res = <<>> THEN None
    ELSE IF Head(res) # None THEN Head(res)
    ELSE first_valid(Tail(res))

(***************************************************************************)
(* Max-sum mode: max(vault.keys()).                                        *)
(***************************************************************************)
\* the first key of the dict instead of the largest
MaxKeyFirst(vault) == vault[1].sum

MaxKey(vault) == CHOOSE k \in Keys(vault) : \A j \in Keys(vault) : j <= k

VARIABLES
    numbers,         \* self.numbers
    target,          \* self.target (None or Some integer)
    enable_parallel, \* self.enable_parallel
    max_workers,     \* self.max_workers
    stats,           \* self.stats (vault_size, combinations_checked)
    pc,              \* position of solve() / of the generator
    left_tranche,
    right_tranche,
    left_vault,
    right_vault,
    idx,             \* position of _sequential_search in left_vault.items()
    chunks,          \* the chunks handed to pool.starmap
    task,            \* state of each pool task
    results,         \* result of each completed task, by submission index
    first_hit,       \* the task whose hit reached the pool's result queue first
    solution,        \* what _sieve_and_combine returned
    solved,          \* result['solved']
    outcome,         \* "none", "returned" or "raised"
    instance,        \* list being built by generate_test_instance
    gen_size,
    gen_max

vars == <<numbers, target, enable_parallel, max_workers, stats, pc,
          left_tranche, right_tranche, left_vault, right_vault, idx,
          chunks, task, results, first_hit, solution, solved, outcome,
          instance, gen_size, gen_max>>

solverVars == <<numbers, target, enable_parallel, max_workers>>
genVars == <<instance, gen_size, gen_max>>
poolVars == <<chunks, task, results, first_hit>>
vaultVars == <<left_tranche, right_tranche, left_vault, right_vault>>
resultVars == <<solution, solved, outcome>>

\* self.stats of __init__
InitStats == [vault_size |-> 0, combinations_checked |-> 0]

IdleSolve ==
    /\ stats = InitStats
    /\ left_tranche = <<>>
    /\ right_tranche = <<>>
    /\ left_vault = <<>>
    /\ right_vault = <<>>
    /\ idx = 0
    /\ chunks = <<>>
    /\ task = <<>>
    /\ results = <<>>
    /\ first_hit = 0
    /\ solution = None
    /\ solved = FALSE
    /\ outcome = "none"

\* TitanSolver.__init__
Init ==
    /\ numbers \in {sorted(S) : S \in SeqsUpTo(Vals, MaxLen)}
    /\ target \in {None} \cup {Some(t) : t \in Targets}
    /\ enable_parallel \in BOOLEAN
    /\ max_workers \in 1..MaxWorkers
    /\ pc = "init"
    /\ IdleSolve
    /\ instance = <<>>
    /\ gen_size = 0
    /\ gen_max = 0

\* PHASE 1 of solve
SplitTranches ==
    /\ pc = "init"
    /\ left_tranche' = split_left(numbers)
    /\ right_tranche' = split_right(numbers)
    /\ pc' = "split"
    /\ UNCHANGED <<solverVars, genVars, poolVars, resultVars, stats,
                   left_vault, right_vault, idx>>

\* PHASE 2 of solve
BuildVaults ==
    /\ pc = "split"
    /\ left_vault' = build_vault(left_tranche)
    /\ right_vault' = build_vault(right_tranche)
    /\ stats' = [stats EXCEPT !.vault_size =
                    Len(build_vault(left_tranche)) + Len(build_vault(right_tranche))]
    /\ pc' = "vault_built"
    /\ UNCHANGED <<solverVars, genVars, poolVars, resultVars,
                   left_tranche, right_tranche, idx>>

\* the tail of solve: the returned dictionary
Return(sol) ==
    /\ solution' = sol
    /\ solved' = (sol # None)
    /\ outcome' = "returned"
    /\ pc' = "done"

\* _sieve_and_combine, target is None
SieveMaxSum ==
    /\ pc = "vault_built"
    /\ target = None
    /\ Return(Some([subset |-> Lookup(left_vault, MaxKey(left_vault))
                                 \o Lookup(right_vault, MaxKey(right_vault)),
                    sum |-> MaxKey(left_vault) + MaxKey(right_vault)]))
    /\ UNCHANGED <<solverVars, genVars, poolVars, vaultVars, stats, idx>>

\* _sieve_and_combine, sequential branch: the for loop starts
SieveSequential ==
    /\ pc = "vault_built"
    /\ target # None
    /\ ~enable_parallel
    /\ idx' = 1
    /\ pc' = "sequential"
    /\ UNCHANGED <<solverVars, genVars, poolVars, vaultVars, resultVars, stats>>

\* _sequential_search: needed in right_vault
SequentialHit ==
    /\ pc = "sequential"
    /\ idx <= Len(left_vault)
    /\ HasKey(right_vault, Needed(Val(target), left_vault[idx].sum))
    /\ stats' = [stats EXCEPT !.combinations_checked = @ + 1]
    /\ Return(Some(Hit(left_vault[idx], right_vault, Val(target))))
    /\ UNCHANGED <<solverVars, genVars, poolVars, vaultVars, idx>>

\* _sequential_search: needed not in right_vault
SequentialMiss ==
    /\ pc = "sequential"
    /\ idx <= Len(left_vault)
    /\ ~HasKey(right_vault, Needed(Val(target), left_vault[idx].sum))
    /\ stats' = [stats EXCEPT !.combinations_checked = @ + 1]
    /\ idx' = idx + 1
    /\ UNCHANGED <<solverVars, genVars, poolVars, vaultVars, resultVars, pc>>

\* _sequential_search: the loop ends, return None
SequentialExhausted ==
    /\ pc = "sequential"
    /\ idx > Len(left_vault)
    /\ Return(None)
    /\ UNCHANGED <<solverVars, genVars, poolVars, vaultVars, stats, idx>>

\* _sieve_and_combine, parallel branch: _parallel_search chunks the left
\* vault and hands one task per chunk to pool.starmap
SieveParallel ==
    /\ pc = "vault_built"
    /\ target # None
    /\ enable_parallel
    /\ chunks' = make_chunks(left_vault, max_workers)
    /\ task' = [k \in 1..NumChunks(left_vault, max_workers) |-> "pending"]
    /\ results' = [k \in 1..NumChunks(left_vault, max_workers) |-> None]
    /\ pc' = "parallel"
    /\ UNCHANGED <<solverVars, genVars, vaultVars, resultVars, stats, idx, first_hit>>

Running == {k \in DOMAIN task : task[k] = "running"}

Pending == {k \in DOMAIN task : task[k] = "pending"}

\* a free pool process takes the next task of the queue (submission order)
PoolStart ==
    /\ pc = "parallel"
    /\ Pending # {}
    /\ Cardinality(Running) < max_workers
    /\ task' = [task EXCEPT ![CHOOSE k \in Pending : \A j \in Pending : k <= j] = "running"]
    /\ UNCHANGED <<solverVars, genVars, vaultVars, resultVars, stats, idx,
                   chunks, results, first_hit, pc>>

\* a pool process completes worker(chunk, right_vault, target)
PoolFinish ==
    /\ pc = "parallel"
    /\ \E k \in Running :
        /\ task' = [task EXCEPT ![k] = "done"]
        /\ results' = [results EXCEPT ![k] = worker(chunks[k], right_vault, Val(target))]
        /\ first_hit' = IF first_hit = 0 /\ worker(chunks[k], right_vault, Val(target)) # None
                        THEN k ELSE first_hit
    /\ UNCHANGED <<solverVars, genVars, vaultVars, resultVars, stats, idx, chunks, pc>>

\* a task raises instead of returning (as when the pool cannot pickle the
\* locally defined worker)
PoolFault ==
    /\ pc = "parallel"
    /\ \E k \in Running : task' = [task EXCEPT ![k] = "failed"]
    /\ UNCHANGED <<solverVars, genVars, vaultVars, resultVars, stats, idx,
                   chunks, results, first_hit, pc>>

AllCompleted == \A k \in DOMAIN task : task[k] \in {"done", "failed"}

Failed == {k \in DOMAIN task : task[k] = "failed"}

\* starmap returned the ordered results: the first valid one is the answer
ParallelCollect ==
    /\ pc = "parallel"
    /\ AllCompleted
    /\ Failed = {}
    /\ stats' = [stats EXCEPT !.combinations_checked = Len(left_vault)]
    /\ Return(first_valid(results))
    /\ UNCHANGED <<solverVars, genVars, poolVars, vaultVars, idx>>

\* starmap re-raises the exception of a failed task once all tasks are over;
\* nothing catches it, solve() propagates it
ParallelRaise ==
    /\ pc = "parallel"
    /\ AllCompleted
    /\ Failed # {}
    /\ outcome' = "raised"
    /\ pc' = "done"
    /\ UNCHANGED <<solverVars, genVars, poolVars, vaultVars, stats, idx,
                   solution, solved>>

Next ==
    \/ SplitTranches
    \/ BuildVaults
    \/ SieveMaxSum
    \/ SieveSequential
    \/ SequentialHit
    \/ SequentialMiss
    \/ SequentialExhausted
    \/ SieveParallel
    \/ PoolStart
    \/ PoolFinish
    \/ PoolFault
    \/ ParallelCollect
    \/ ParallelRaise

Spec == Init /\ [][Next]_vars

(***************************************************************************)
(* Reference notions the properties are stated with.                       *)
(***************************************************************************)
RECURSIVE SumIdx(_, _)
SumIdx(s, I) ==
    IF I = {} THEN 0
    ELSE LET i == CHOOSE j \in I : TRUE IN s[i] + SumIdx(s, I \ {i})

\* the sums of all sub-multisets of s
SubsetSums(s) == {SumIdx(s, I) : I \in SUBSET DOMAIN s}

MaxOf(S) == CHOOSE k \in S : \A j \in S : j <= k

Returned == pc = "done" /\ outcome = "returned"

TargetMode == target # None

\* the returned subset is a left part drawn from the left tranche followed
\* by a right part drawn from the right tranche, each occurrence used once
DrawnFromTranches(sub) ==
    /\ IsSubBag(sub, numbers)
    /\ \E k \in 0..Len(sub) :
        /\ IsSubBag(SubSeq(sub, 1, k), left_tranche)
        /\ IsSubBag(SubSeq(sub, k + 1, Len(sub)), right_tranche)

RECURSIVE Flatten(_)
Flatten(ss) == IF ss = <<>> THEN <<>> ELSE Head(ss) \o Flatten(Tail(ss))

SequentialOutcome ==
    LET hits == {i \in DOMAIN left_vault :
                    HasKey(right_vault, Val(target) - left_vault[i].sum)}
    IN IF hits = {} THEN None
       ELSE LET i == CHOOSE j \in hits : \A h \in hits : j <= h
            IN Some([subset |-> left_vault[i].subset
                                  \o Lookup(right_vault, Val(target) - left_vault[i].sum),
                     sum |-> Val(target)])

\* C3: a parallel solve returns the outcome the sequential search gives on
\* the same input: the same solved flag and the same solution.
C3_ParallelEqualsSequential ==
    (pc = "done" /\ TargetMode /\ enable_parallel) =>
        /\ outcome = "returned"
        /\ solution = SequentialOutcome
        /\ solved = (SequentialOutcome # None)

\* what does hold of the parallel search: whenever it returns, it returns
\* the sequential outcome
ParallelAgreesWhenReturned ==
    (Returned /\ TargetMode) =>
        (solution = SequentialOutcome /\ solved = (SequentialOutcome # None))

C5_MaxSum ==
    (pc = "done" /\ target = None) =>
        /\ outcome = "returned"
        /\ solved
        /\ solution # None
        /\ SumSeq(Val(solution).subset) = Val(solution).sum
        /\ DrawnFromTranches(Val(solution).subset)
        /\ Val(solution).sum = MaxOf(SubsetSums(numbers))
        /\ (\A i \in DOMAIN numbers : numbers[i] > 0) =>
            /\ Val(solution).subset = numbers
            /\ Val(solution).sum = SumSeq(numbers)

C5_Witness ==
    /\ Returned
    /\ target = None
    /\ Len(numbers) >= 4
    /\ \A i \in DOMAIN numbers : numbers[i] > 0
    /\ Val(solution).subset = numbers

C5_WitnessMixed ==
    /\ Returned
    /\ target = None
    /\ \E i \in DOMAIN numbers : numbers[i] < 0
    /\ \E i \in DOMAIN numbers : numbers[i] > 0
    /\ Val(solution).sum = 3


EarliestHit ==
    IF \A k \in DOMAIN results : results[k] = None THEN 0
    ELSE CHOOSE k \in DOMAIN results :
            results[k] # None /\ \A j \in DOMAIN results : results[j] # None => k <= j

C7_Cancellation ==
    [][/\ (pc = "parallel" /\ first_hit # 0) =>
            \A k \in DOMAIN task : task[k] = "pending" => task'[k] = "pending"
       /\ solution # None => solution' = solution]_vars

\* C8: a fault in one task is isolated: when some but not all tasks failed,
\* the other tasks have run to completion and solve returns the result the
\* completed tasks give.
C8_FaultIsolation ==
    (pc = "done" /\ TargetMode /\ enable_parallel
        /\ Failed # {} /\ Failed # DOMAIN task) =>
        /\ \A k \in DOMAIN task \ Failed : task[k] = "done"
        /\ outcome = "returned"
        /\ solution = first_valid(results)

(***************************************************************************)
(* The phases of solve().                                                  *)
(***************************************************************************)
Searching == pc \in {"sequential", "parallel"}

\* split, then vault construction, then the search, then the end
PhaseOrder ==
    \/ pc' = pc
    \/ pc = "init" /\ pc' = "split"
    \/ pc = "split" /\ pc' = "vault_built"
    \/ pc = "vault_built" /\ pc' \in {"sequential", "parallel", "done"}
    \/ Searching /\ pc' = "done"

\* the search starts on fully built vaults and does not modify them
VaultsReadOnly ==
    /\ (pc = "vault_built" \/ Searching) => UNCHANGED vaultVars
    /\ Searching =>
        /\ left_vault = build_vault(split_left(numbers))
        /\ right_vault = build_vault(split_right(numbers))

\* SOLVED or EXHAUSTED
TerminalOutcome ==
    /\ outcome = "returned"
    /\ \/ solved /\ solution # None
       \/ ~solved /\ solution = None

\* C11: every solve passes through split, vault construction and search in
\* that order, searches on fully built vaults it does not modify, and ends
\* in exactly one of SOLVED (solved=True, a solution) and EXHAUSTED
\* (solved=False, solution None).
C11_PhasesAndOutcome ==
    [][/\ PhaseOrder
       /\ VaultsReadOnly
       /\ pc' = "done" => TerminalOutcome']_vars

\* what does hold: the phase order and the read-only vaults
C11_PhasesOnly == [][PhaseOrder /\ VaultsReadOnly]_vars

\* what does hold: a solve that does not raise ends SOLVED or EXHAUSTED,
\* and a sequential or max-sum solve never raises
C11_OutcomeUnlessRaised ==
    pc = "done" =>
        /\ outcome = "returned" => TerminalOutcome
        /\ (~enable_parallel \/ target = None) => outcome = "returned"

SolveAgain ==
    /\ pc = "done"
    /\ stats.combinations_checked <= MaxChecked
    /\ pc' = "init"
    /\ left_tranche' = <<>>
    /\ right_tranche' = <<>>
    /\ left_vault' = <<>>
    /\ right_vault' = <<>>
    /\ idx' = 0
    /\ chunks' = <<>>
    /\ task' = <<>>
    /\ results' = <<>>
    /\ first_hit' = 0
    /\ solution' = None
    /\ solved' = FALSE
    /\ outcome' = "none"
    /\ UNCHANGED <<solverVars, genVars, stats>>

RepeatNext ==
    \/ Next
    \/ SolveAgain

RepeatSpec == Init /\ [][RepeatNext]_vars

\* the left-vault entries the solve that just returned has examined
Examined ==
    IF enable_parallel THEN Len(left_vault)
    ELSE IF solved THEN idx ELSE Len(left_vault)

\* C13: after any sequence of solves with an explicit target on one solver,
\* combinations_checked is the number of left-vault entries the most recent
\* solve examined, and so never exceeds the size of the left vault.
C13_ChecksOfLastSolve ==
    (Returned /\ TargetMode) =>
        /\ stats.combinations_checked = Examined
        /\ stats.combinations_checked <= Len(left_vault)

(***************************************************************************)
(* generate_test_instance(size, max_val):                                  *)
(* [random.randint(1, max_val) for _ in range(size)]                       *)
(***************************************************************************)
randint(lo, hi) == lo..hi

\* a call generate_test_instance(size, max_val)
GenInit ==
    /\ numbers = <<>>
    /\ target = None
    /\ enable_parallel = FALSE
    /\ max_workers = 1
    /\ IdleSolve
    /\ pc = "gen"
    /\ instance = <<>>
    /\ gen_size \in 0..MaxSize
    /\ gen_max \in 1..MaxGenVal

\* one iteration of the list comprehension
GenDraw ==
    /\ pc = "gen"
    /\ Len(instance) < gen_size
    /\ \E v \in randint(1, gen_max) : instance' = Append(instance, v)
    /\ UNCHANGED <<solverVars, poolVars, vaultVars, resultVars, stats, idx, pc,
                   gen_size, gen_max>>

\* the list is returned
GenReturn ==
    /\ pc = "gen"
    /\ Len(instance) = gen_size
    /\ pc' = "gen_done"
    /\ UNCHANGED <<solverVars, poolVars, vaultVars, resultVars, stats, idx, genVars>>

GenNext ==
    \/ GenDraw
    \/ GenReturn

GenSpec == GenInit /\ [][GenNext]_vars

\* C9: every generated instance of size >= 1 ends with the negation of the
\* sum of its other elements, so its elements sum to zero.
C9_GeneratorZeroSum ==
    (pc = "gen_done" /\ gen_size >= 1) =>
        /\ instance[Len(instance)] = 0 - SumSeq(SubSeq(instance, 1, Len(instance) - 1))
        /\ SumSeq(instance) = 0

\* what the generator does return: size elements, each in 1..max_val
GeneratorRange ==
    pc = "gen_done" =>
        /\ Len(instance) = gen_size
        /\ \A i \in DOMAIN instance : instance[i] \in 1..gen_max

(***************************************************************************)
(* The enumeration order of _build_vault: ascending size, then index order.*)
(***************************************************************************)
\* index set I comes strictly before index set J
Before(I, J) ==
    \/ Cardinality(I) < Cardinality(J)
    \/ /\ Cardinality(I) = Cardinality(J)
       /\ I # J
       /\ LET D == (I \ J) \cup (J \ I)
          IN (CHOOSE d \in D : \A e \in D : d <= e) \in I

\* the elements of tranche T at the indices I, in index order
RECURSIVE PickSet(_, _)
PickSet(T, I) ==
    IF I = {} THEN <<>>
    ELSE LET i == CHOOSE d \in I : \A e \in I : d <= e
         IN <<T[i]>> \o PickSet(T, I \ {i})

WithSum(T, k) == {I \in SUBSET DOMAIN T : SumIdx(T, I) = k}

FirstWithSum(T, k) == CHOOSE I \in WithSum(T, k) : \A J \in WithSum(T, k) : I = J \/ Before(I, J)

VaultOK(T, vault) ==
    /\ Keys(vault) = SubsetSums(T)
    /\ 0 \in Keys(vault)
    /\ \A i, j \in DOMAIN vault : vault[i].sum = vault[j].sum => i = j
    /\ \A i \in DOMAIN vault :
        /\ SumSeq(vault[i].subset) = vault[i].sum
        /\ IsSubBag(vault[i].subset, T)
        /\ vault[i].subset = PickSet(T, FirstWithSum(T, vault[i].sum))
        /\ \A J \in WithSum(T, vault[i].sum) : Len(vault[i].subset) <= Cardinality(J)
    /\ Lookup(vault, 0) = <<>>

\* C10: each vault built has exactly the sums of all sub-multisets of its
\* tranche as keys (0 among them), each key mapped to a sub-multiset of the
\* tranche with that sum, namely the first one in the order ascending size
\* then index order (so 0 maps to the empty subset and every witness has
\* minimum size).
C10_VaultContents ==
    pc = "vault_built" =>
        /\ VaultOK(left_tranche, left_vault)
        /\ VaultOK(right_tranche, right_vault)

C10_Witness ==
    /\ pc = "vault_built"
    /\ Len(right_tranche) = 3
    /\ Len(right_vault) < 8
    /\ \E i \in DOMAIN right_vault : Len(right_vault[i].subset) = 2
    /\ \E I \in SUBSET DOMAIN right_tranche :
        /\ Cardinality(I) = 2
        /\ PickSet(right_tranche, I) # Lookup(right_vault, SumIdx(right_tranche, I))

====
